---- MODULE Spec2Model ----
(***************************************************************************)
(* Incremental relationship graph engine of MC-Explorer                    *)
(* (mc-explorer-client/src/SchemaBuilder.js).                              *)
(*                                                                         *)
(* The specifications of this module:                                      *)
(*   SpecMerge  the graph merger (dedupeById) applied to two graphs        *)
(*   SpecPass   one graph-assembly pass (updateGraph), both UI variants    *)
(*   Spec       the session: selection, expansion, reset, rebuilds         *)
(*   SpecRec    one recursive expansion (expandSelectedNodeRecursively)    *)
(*   SpecClassify  the relationship classifier over a list of edge types  *)
(*   SpecRecReset  Expand All with Reset Expansions pressed meanwhile      *)
(*   SpecPanel  a single-level expansion and Expand All side by side       *)
(*   SpecExplore  the panel runs with one other user operation             *)
(***************************************************************************)
EXTENDS Integers, Sequences, FiniteSets, Bags, TLC

(***************************************************************************)
(* Bounds of the model                                                     *)
(***************************************************************************)
\* longest element list of a graph given to the merger
MaxLen == 2
\* most nodes / edges in the backend's answer to one graph fetch
MaxNodes == 2
MaxEdges == 2
\* most user operations in one explored session
MaxOps == 4
\* most graph-assembly passes awaiting their fetchGraph response at once
MaxPasses == 2
\* most expansions awaiting their fetchExpansion response at once
MaxExps == 1

(***************************************************************************)
(* Data                                                                    *)
(***************************************************************************)
\* a missing/falsy id (undefined, null, ""), see dedupeById's `if (!id)`
NoId == "none"
\* ids of nodes the backend may report
NodeIds == {"A", "B"}
\* an id that is never the id of a reported node (dangling endpoint)
Ghost == "X"
EdgeIds == {"e1", "e2"}
\* payload of an element apart from its id (label, metadata, ...)
DataVals == {"v1", "v2"}

EmptyGraph == [nodes |-> <<>>, edges |-> <<>>]

\* node elements { data: { id, ...payload } }
NodeElems == [id : NodeIds, d : DataVals]
\* node elements as the merger may receive them, the id possibly missing
RawNodeElems == [id : NodeIds \cup {NoId}, d : DataVals]

SeqsUpTo(S, n) == UNION {[1..k -> S] : k \in 0..n}

(***************************************************************************)
(* Graph merger                                                            *)
(***************************************************************************)
RECURSIVE DedupeFrom(_, _, _)
DedupeFrom(arr, i, acc) ==
  IF i > Len(arr) THEN acc
  ELSE LET el == arr[i]
       IN IF el.id = NoId
          THEN DedupeFrom(arr, i + 1, acc)
          ELSE IF \E j \in 1..Len(acc) : acc[j].id = el.id
               THEN DedupeFrom(arr, i + 1, acc)
               ELSE DedupeFrom(arr, i + 1, Append(acc, el))

\* mutant: the map is overwritten on a repeated id (last write wins)
RECURSIVE DedupeLastFrom(_, _, _)
DedupeLastFrom(arr, i, acc) ==
  IF i > Len(arr) THEN acc
  ELSE LET el == arr[i]
       IN IF el.id = NoId
          THEN DedupeLastFrom(arr, i + 1, acc)
          ELSE IF \E j \in 1..Len(acc) : acc[j].id = el.id
               THEN DedupeLastFrom(arr, i + 1,
                      [j \in 1..Len(acc) |->
                         IF acc[j].id = el.id THEN el ELSE acc[j]])
               ELSE DedupeLastFrom(arr, i + 1, Append(acc, el))

dedupeByIdLastWins(arr) == DedupeLastFrom(arr, 1, <<>>)

\* mutant: no check of map.has(id), every element with an id is kept
dedupeByIdKeepAll(arr) == SelectSeq(arr, LAMBDA el : el.id # NoId)

\* const dedupeById = (arr) => { Map keyed by id, first occurrence kept }
dedupeById(arr) == DedupeFrom(arr, 1, <<>>)

\* merge([A, B]) as both call sites write it:
\* dedupeById([...A.nodes, ...B.nodes]), dedupeById([...A.edges, ...B.edges])
MergeGraphs(A, B) ==
  [nodes |-> dedupeById(A.nodes \o B.nodes),
   edges |-> dedupeById(A.edges \o B.edges)]

\* merge([G]): the merger applied to a single graph
MergeOne(G) ==
  [nodes |-> dedupeById(G.nodes), edges |-> dedupeById(G.edges)]


(***************************************************************************)
(* Relationship classifier                                                 *)
(***************************************************************************)
directTypes == {"writes_to", "reads_from", "imports_to_de", "updates_de",
                "journey_entry_source", "filters_to", "filters_from"}
indirectTypes == {"contains_query", "executes_query", "triggers_automation",
                  "executes_activity", "next_step"}
metadataTypes == {"filters_de", "uses_in_decision", "provides_data_to"}

\* classifyRelationship without the two filter directions in directTypes (a
\* variant used to test the claim about the table)
classifyRelationshipNarrow(relationshipType) ==
  IF relationshipType \in directTypes \ {"filters_to", "filters_from"} THEN "direct"
  ELSE IF relationshipType \in indirectTypes THEN "indirect"
  ELSE IF relationshipType \in metadataTypes THEN "metadata"
  ELSE "unknown"

classifyRelationship(relationshipType) ==
  IF relationshipType \in directTypes THEN "direct"
  ELSE IF relationshipType \in indirectTypes THEN "indirect"
  ELSE IF relationshipType \in metadataTypes THEN "metadata"
  ELSE "unknown"

(***************************************************************************)
(* Graph-assembly pass: updateGraph of the first UI variant                *)
(***************************************************************************)
\* selectedNodeId === null
NoSel == "null"

\* the modelled backend labels a relationship by its endpoints; the labels
\* cover the three tiers of the table and one label the table does not list
LabelOf(source, target) ==
  IF source = "A" /\ target = "B" THEN "writes_to"
  ELSE IF source = "B" /\ target = "A" THEN "next_step"
  ELSE IF source = "A" /\ target = "A" THEN "filters_de"
  ELSE IF source = "B" /\ target = "B" THEN "sends_email"
  ELSE IF source = Ghost THEN "executes_query"
  ELSE "reads_from"

\* edges the backend may report: every pair of reported nodes, one edge whose
\* target and one whose source is not a reported node
EndpointPairs == (NodeIds \X NodeIds) \cup {<<"A", Ghost>>, <<Ghost, "B">>}

EdgeElems ==
  {[id |-> e, source |-> p[1], target |-> p[2], type |-> LabelOf(p[1], p[2])] :
     e \in EdgeIds, p \in EndpointPairs}

\* nodes the backend may report in a graph fetch
BaseNodeElems == {[id |-> "A", d |-> "v1"], [id |-> "A", d |-> "v2"],
                  [id |-> "B", d |-> "v1"]}

\* const hasActiveSelections ? backend data only : dedupeById(base ++ extraGraph)
mergedGraphData(baseGraphData, extra, hasActiveSelections) ==
  IF hasActiveSelections
  THEN [nodes |-> baseGraphData.nodes, edges |-> baseGraphData.edges]
  ELSE MergeGraphs(baseGraphData, extra)

\* keys of a Map in insertion order: Map.set on a present key keeps its place
RECURSIVE KeysFrom(_, _, _)
KeysFrom(nodes, i, acc) ==
  IF i > Len(nodes) THEN acc
  ELSE IF \E j \in 1..Len(acc) : acc[j] = nodes[i].id
       THEN KeysFrom(nodes, i + 1, acc)
       ELSE KeysFrom(nodes, i + 1, Append(acc, nodes[i].id))

MapKeys(nodes) == KeysFrom(nodes, 1, <<>>)

SeqToSet(s) == {s[i] : i \in 1..Len(s)}

\* the value Map.set leaves for id: that of the last node carrying the id
LastWithId(nodes, id) ==
  nodes[CHOOSE i \in 1..Len(nodes) :
          /\ nodes[i].id = id
          /\ \A j \in (i + 1)..Len(nodes) : nodes[j].id # id]

\* mergedGraphData.nodes.forEach(node => nodeConnections.set(node.data.id, {...}))
InitConnections(nodes) ==
  [id \in SeqToSet(MapKeys(nodes)) |->
     [node |-> LastWithId(nodes, id),
      inbound |-> <<>>, outbound |-> <<>>,
      hasDirectConnections |-> FALSE,
      hasIndirectConnections |-> FALSE,
      hasMetadataConnections |-> FALSE,
      totalConnections |-> 0]]

\* outbound.push, flag, totalConnections++ on the source's record
AddOutbound(conn, edge, level) ==
  [conn EXCEPT
     ![edge.source].outbound = Append(@, [edgeId |-> edge.id, targetId |-> edge.target,
                                          type |-> edge.type, level |-> level]),
     ![edge.source].hasDirectConnections = @ \/ level = "direct",
     ![edge.source].hasIndirectConnections = @ \/ level = "indirect",
     ![edge.source].hasMetadataConnections = @ \/ level = "metadata",
     ![edge.source].totalConnections = @ + 1]

\* AddInbound without the increment of the target's totalConnections (a
\* variant used to test the claim about the bookkeeping)
AddInboundNoCount(conn, edge, level) ==
  [conn EXCEPT
     ![edge.target].inbound = Append(@, [edgeId |-> edge.id, sourceId |-> edge.source,
                                         type |-> edge.type, level |-> level]),
     ![edge.target].hasDirectConnections = @ \/ level = "direct",
     ![edge.target].hasIndirectConnections = @ \/ level = "indirect",
     ![edge.target].hasMetadataConnections = @ \/ level = "metadata"]

\* inbound.push, flag, totalConnections++ on the target's record
AddInbound(conn, edge, level) ==
  [conn EXCEPT
     ![edge.target].inbound = Append(@, [edgeId |-> edge.id, sourceId |-> edge.source,
                                         type |-> edge.type, level |-> level]),
     ![edge.target].hasDirectConnections = @ \/ level = "direct",
     ![edge.target].hasIndirectConnections = @ \/ level = "indirect",
     ![edge.target].hasMetadataConnections = @ \/ level = "metadata",
     ![edge.target].totalConnections = @ + 1]

\* if (!sourceConn || !targetConn) { console.warn(...); return; }
EdgeIsInvalid(conn, edge) ==
  edge.source \notin DOMAIN conn \/ edge.target \notin DOMAIN conn

\* mergedGraphData.edges.forEach: st = [conn, validEdges, warned]
\* (both records exist whenever the edge is not dropped; the membership tests
\* below only keep the fold defined when the validity test itself is altered)
RECURSIVE ProcessEdges(_, _, _)
ProcessEdges(edges, i, st) ==
  IF i > Len(edges) THEN st
  ELSE LET edge == edges[i]
       IN IF EdgeIsInvalid(st.conn, edge)
          THEN ProcessEdges(edges, i + 1,
                 [st EXCEPT !.warned = Append(@, edge)])
          ELSE LET level == classifyRelationship(edge.type)
                   c1 == IF edge.source \in DOMAIN st.conn
                         THEN AddOutbound(st.conn, edge, level) ELSE st.conn
                   c2 == IF edge.target \in DOMAIN st.conn
                         THEN AddInbound(c1, edge, level) ELSE c1
               IN ProcessEdges(edges, i + 1,
                    [st EXCEPT !.conn = c2,
                               !.validEdges = Append(@, [edge |-> edge, level |-> level])])


\* orphanNodes.map(node => ({...node, data: {..., metadata: {..., isOrphan: true}}}))
TagOrphan(node) == [id |-> node.id, d |-> node.d, isOrphan |-> TRUE]

\* a connected node is passed on as it came (the backend supplies no isOrphan)
KeepNode(node) == [id |-> node.id, d |-> node.d, isOrphan |-> FALSE]

\* if (selectedNodeId) { add it; inbound -> sourceId, outbound -> targetId }
HighlightedNodes(conn, selectedNodeId) ==
  IF selectedNodeId = NoSel THEN {}
  ELSE {selectedNodeId} \cup
       (IF selectedNodeId \in DOMAIN conn
        THEN {conn[selectedNodeId].inbound[i].sourceId :
                 i \in 1..Len(conn[selectedNodeId].inbound)} \cup
             {conn[selectedNodeId].outbound[i].targetId :
                 i \in 1..Len(conn[selectedNodeId].outbound)}
        ELSE {})

HighlightedEdges(conn, selectedNodeId) ==
  IF selectedNodeId = NoSel \/ selectedNodeId \notin DOMAIN conn THEN {}
  ELSE {conn[selectedNodeId].inbound[i].edgeId :
           i \in 1..Len(conn[selectedNodeId].inbound)} \cup
       {conn[selectedNodeId].outbound[i].edgeId :
           i \in 1..Len(conn[selectedNodeId].outbound)}

\* the result of a pass before any input was processed
EmptyPass ==
  [variant |-> 0, merged |-> EmptyGraph, keys |-> <<>>, conn |-> <<>>,
   validEdges |-> <<>>, warned |-> <<>>,
   connectedNodes |-> <<>>, orphanNodes |-> <<>>, finalNodes |-> <<>>,
   highlightedNodes |-> {}, highlightedEdges |-> {},
   styledNodes |-> <<>>, styledEdges |-> <<>>]

\* updateGraph (first variant) from the merged graph on: index, orphan split,
\* tagging, highlighting, styling
AssembleGraph(merged, selectedNodeId) ==
  LET conn0 == InitConnections(merged.nodes)
      keys == MapKeys(merged.nodes)
      st == ProcessEdges(merged.edges, 1,
              [conn |-> conn0, validEdges |-> <<>>, warned |-> <<>>])
      conn == st.conn
      \* nodeConnections.forEach: the nodes with / without totalConnections > 0,
      \* in the Map's key order
      connectedKeys == SelectSeq(keys, LAMBDA k : conn[k].totalConnections > 0)
      orphanKeys == SelectSeq(keys, LAMBDA k : ~(conn[k].totalConnections > 0))
      connectedNodes == [i \in 1..Len(connectedKeys) |-> KeepNode(conn[connectedKeys[i]].node)]
      orphanNodes == [i \in 1..Len(orphanKeys) |-> KeepNode(conn[orphanKeys[i]].node)]
      styledOrphanNodes == [i \in 1..Len(orphanKeys) |-> TagOrphan(conn[orphanKeys[i]].node)]
      finalNodes == connectedNodes \o styledOrphanNodes
      hn == HighlightedNodes(conn, selectedNodeId)
      he == HighlightedEdges(conn, selectedNodeId)
  IN [variant |-> 1, merged |-> merged, keys |-> keys, conn |-> conn,
      validEdges |-> st.validEdges, warned |-> st.warned,
      connectedNodes |-> connectedNodes, orphanNodes |-> orphanNodes,
      finalNodes |-> finalNodes,
      highlightedNodes |-> hn, highlightedEdges |-> he,
      styledNodes |-> [i \in 1..Len(finalNodes) |->
         [id |-> finalNodes[i].id, d |-> finalNodes[i].d,
          isOrphan |-> finalNodes[i].isOrphan,
          isHighlighted |-> finalNodes[i].id \in hn,
          isFaded |-> selectedNodeId # NoSel /\ finalNodes[i].id \notin hn]],
      styledEdges |-> [i \in 1..Len(st.validEdges) |->
         [edge |-> st.validEdges[i].edge,
          isHighlighted |-> st.validEdges[i].edge.id \in he,
          isFaded |-> selectedNodeId # NoSel /\ st.validEdges[i].edge.id \notin he]]]

\* updateGraph, first variant, after `await loadGraphData()` returned baseGraphData
UpdateGraphPass(baseGraphData, extra, hasActiveSelections, selectedNodeId) ==
  AssembleGraph(mergedGraphData(baseGraphData, extra, hasActiveSelections),
                selectedNodeId)


(***************************************************************************)
(* Graph-assembly pass: updateGraph of the second UI variant               *)
(***************************************************************************)
\* graphData.nodes.forEach(node => nodeConnections.set(node.data.id, {...}))
InitConnections2(nodes) ==
  [id \in SeqToSet(MapKeys(nodes)) |->
     [node |-> LastWithId(nodes, id),
      inbound |-> <<>>, outbound |-> <<>>, hasConnections |-> FALSE]]

\* graphData.edges.forEach: each endpoint that resolves gets its entry and
\* hasConnections = true, whether or not the other endpoint resolves
RECURSIVE ProcessEdges2(_, _, _)
ProcessEdges2(edges, i, conn) ==
  IF i > Len(edges) THEN conn
  ELSE LET edge == edges[i]
           c1 == IF edge.source \in DOMAIN conn
                 THEN [conn EXCEPT
                         ![edge.source].outbound =
                            Append(@, [edgeId |-> edge.id, targetId |-> edge.target,
                                       type |-> edge.type]),
                         ![edge.source].hasConnections = TRUE]
                 ELSE conn
           c2 == IF edge.target \in DOMAIN c1
                 THEN [c1 EXCEPT
                         ![edge.target].inbound =
                            Append(@, [edgeId |-> edge.id, sourceId |-> edge.source,
                                       type |-> edge.type]),
                         ![edge.target].hasConnections = TRUE]
                 ELSE c1
       IN ProcessEdges2(edges, i + 1, c2)

\* updateGraph, second variant, after `await loadGraphData()` returned graphData
UpdateGraphPass2(graphData, showOrphans) ==
  LET keys == MapKeys(graphData.nodes)
      conn == ProcessEdges2(graphData.edges, 1, InitConnections2(graphData.nodes))
      connectedKeys == SelectSeq(keys, LAMBDA k : conn[k].hasConnections)
      orphanKeys == SelectSeq(keys, LAMBDA k : ~conn[k].hasConnections)
      connectedNodes == [i \in 1..Len(connectedKeys) |-> KeepNode(conn[connectedKeys[i]].node)]
      orphanNodes == [i \in 1..Len(orphanKeys) |-> KeepNode(conn[orphanKeys[i]].node)]
      styledOrphanNodes == [i \in 1..Len(orphanKeys) |-> TagOrphan(conn[orphanKeys[i]].node)]
      finalNodes == IF showOrphans THEN connectedNodes \o styledOrphanNodes
                    ELSE connectedNodes
      nodeIds == {finalNodes[i].id : i \in 1..Len(finalNodes)}
      shown == SelectSeq(graphData.edges,
                 LAMBDA e : e.source \in nodeIds /\ e.target \in nodeIds)
  IN [variant |-> 2, merged |-> graphData, keys |-> keys, conn |-> conn,
      validEdges |-> [i \in 1..Len(shown) |->
                        [edge |-> shown[i], level |-> "unknown"]],
      warned |-> <<>>,
      connectedNodes |-> connectedNodes, orphanNodes |-> orphanNodes,
      finalNodes |-> finalNodes,
      highlightedNodes |-> {}, highlightedEdges |-> {},
      styledNodes |-> [i \in 1..Len(finalNodes) |->
         [id |-> finalNodes[i].id, d |-> finalNodes[i].d,
          isOrphan |-> finalNodes[i].isOrphan,
          isHighlighted |-> FALSE, isFaded |-> FALSE]],
      styledEdges |-> [i \in 1..Len(shown) |->
         [edge |-> shown[i], isHighlighted |-> FALSE, isFaded |-> FALSE]]]

(***************************************************************************)
(* State                                                                   *)
(***************************************************************************)
VARIABLES
  \* SpecMerge: the two graphs given to the merger and its result
  mergeA, mergeB, mergeOut, mergePc,
  \* SpecPass: the inputs of one pass and what it produced
  passBase, passExtra, passHasSel, passSelNode, passShowOrphans, passOut, passPc,
  \* Spec: the component's React state ...
  selectedObjects, showAllObjects, selectedNodeId, extraGraph, isExpanding,
  apiLoading, apiError, rightSideLoading,
  \* ... what the last setGraphElements published, the async work in flight,
  \* the console diagnostics written so far, the number of user operations
  \* done and the last of them
  published, passes, exps, diagnostics, ops, lastOp,
  \* SpecRec: the locals of one expandSelectedNodeRecursively call, the
  \* endpoint's answers it runs against and the record of its fetch rounds
  rec,
  \* SpecClassify: the relationship types of a list of edges, the levels
  \* classifyRelationship gave them, and whether it has run
  relTypes, relLevels, classPc

mergeVars == <<mergeA, mergeB, mergeOut, mergePc>>
passVars == <<passBase, passExtra, passHasSel, passSelNode, passShowOrphans,
              passOut, passPc>>
reactVars == <<selectedObjects, showAllObjects, selectedNodeId, extraGraph,
               isExpanding, apiLoading, apiError, rightSideLoading>>
sessionVars == <<reactVars, published, passes, exps, diagnostics, ops, lastOp>>
recVars == <<rec>>
classVars == <<relTypes, relLevels, classPc>>
vars == <<mergeVars, passVars, sessionVars, recVars, classVars>>

MergeIdle ==
  /\ mergeA = EmptyGraph /\ mergeB = EmptyGraph
  /\ mergeOut = EmptyGraph /\ mergePc = "off"

\* the render-time values an updateGraph closure has captured
EnvOf(objs, showAll, selNode, extra) ==
  [selectedObjects |-> objs, showAllObjects |-> showAll,
   selectedNodeId |-> selNode, extraGraph |-> extra]

NoEnv == EnvOf({}, FALSE, NoSel, EmptyGraph)

\* useState initial values: nothing selected, no expansion, empty graph
SessionIdle ==
  /\ selectedObjects = {} /\ showAllObjects = FALSE
  /\ selectedNodeId = NoSel /\ extraGraph = EmptyGraph
  /\ isExpanding = FALSE
  /\ apiLoading = FALSE /\ apiError = FALSE /\ rightSideLoading = FALSE
  /\ published = [kind |-> "initial", env |-> NoEnv, base |-> EmptyGraph,
                  origin |-> "none", out |-> EmptyPass]
  /\ passes = EmptyBag /\ exps = EmptyBag /\ diagnostics = {} /\ ops = 0 /\ lastOp = "none"

PassIdle ==
  /\ passBase = EmptyGraph /\ passExtra = EmptyGraph
  /\ passHasSel = FALSE /\ passSelNode = NoSel /\ passShowOrphans = FALSE
  /\ passOut = EmptyPass /\ passPc = "off"


(***************************************************************************)
(* SpecMerge: the merger applied to two element lists                      *)
(***************************************************************************)
\* edge elements as the merger may receive them; the target stands for the
\* payload by which two edges of one id differ
RawEdgeElems == [id : EdgeIds \cup {NoId}, source : {"A"}, target : NodeIds,
                 type : {"writes_to"}]

MergeInputs ==
  {[nodes |-> ns, edges |-> <<>>] : ns \in SeqsUpTo(RawNodeElems, MaxLen)} \cup
  {[nodes |-> <<>>, edges |-> es] : es \in SeqsUpTo(RawEdgeElems, MaxLen)}

\* a graph that is itself the result of merges, as extraGraph always is
IsMerged(G) == G = MergeOne(G)

\* no recursive expansion has been called
RecOff == rec = [pc |-> "off"]

\* outside SpecClassify no list of types is being classified
ClassOff == relTypes = <<>> /\ relLevels = <<>> /\ classPc = "off"

MergeInit ==
  /\ mergeA \in MergeInputs /\ mergeB \in MergeInputs
  /\ (mergeA.edges = <<>> /\ mergeB.edges = <<>>) \/
     (mergeA.nodes = <<>> /\ mergeB.nodes = <<>>)
  /\ mergeOut = EmptyGraph /\ mergePc = "input"
  /\ PassIdle /\ SessionIdle /\ RecOff /\ ClassOff

\* updateGraph: merge([base fetch result, extraGraph])
MergeBaseExtra ==
  /\ mergePc = "input" /\ IsMerged(mergeB)
  /\ mergeOut' = mergedGraphData(mergeA, mergeB, FALSE)
  /\ mergePc' = "baseExtra"
  /\ UNCHANGED <<mergeA, mergeB, passVars, sessionVars, recVars, classVars>>

\* expandSelectedNode: setExtraGraph(prev => merge([prev, dedupe(response)]))
ExpandMerge(prev, data) ==
  [nodes |-> dedupeById(prev.nodes \o dedupeById(data.nodes)),
   edges |-> dedupeById(prev.edges \o dedupeById(data.edges))]

MergeExtraResponse ==
  /\ mergePc = "input" /\ IsMerged(mergeA)
  /\ mergeOut' = ExpandMerge(mergeA, mergeB)
  /\ mergePc' = "extraResponse"
  /\ UNCHANGED <<mergeA, mergeB, passVars, sessionVars, recVars, classVars>>

\* merge([G, G])
MergeSelf ==
  /\ mergePc = "input"
  /\ mergeOut' = MergeGraphs(mergeA, mergeA)
  /\ mergePc' = "self"
  /\ UNCHANGED <<mergeA, mergeB, passVars, sessionVars, recVars, classVars>>

MergeNext == MergeBaseExtra \/ MergeExtraResponse \/ MergeSelf

SpecMerge == MergeInit /\ [][MergeNext]_vars

(***************************************************************************)
(* SpecPass: one graph-assembly pass over a backend answer                 *)
(***************************************************************************)
\* what extraGraph may hold when a pass runs: nothing, or a neighbourhood of
\* two nodes and the edge between them
ExtraGraphs ==
  {EmptyGraph,
   [nodes |-> <<[id |-> "A", d |-> "v2"], [id |-> "B", d |-> "v2"]>>,
    edges |-> <<[id |-> "e1", source |-> "A", target |-> "B", type |-> "writes_to"]>>]}

BaseGraphs == [nodes : SeqsUpTo(BaseNodeElems, MaxNodes),
               edges : SeqsUpTo(EdgeElems, MaxEdges)]

PassInit == PassIdle /\ MergeIdle /\ SessionIdle /\ RecOff /\ ClassOff

\* first UI variant: updateGraph with the fetched base graph
RunUpdateGraph ==
  /\ passPc = "off"
  /\ \E base \in BaseGraphs, extra \in ExtraGraphs,
        hasSel \in BOOLEAN, sel \in {NoSel, "A"} :
       /\ passBase' = base /\ passExtra' = extra
       /\ passHasSel' = hasSel /\ passSelNode' = sel
       /\ passOut' = UpdateGraphPass(base, extra, hasSel, sel)
  /\ passPc' = "done1"
  /\ UNCHANGED <<passShowOrphans, mergeVars, sessionVars, recVars, classVars>>

\* second UI variant: updateGraph with the fetched graph
RunUpdateGraph2 ==
  /\ passPc = "off"
  /\ \E base \in BaseGraphs, showOrphans \in BOOLEAN :
       /\ passBase' = base /\ passShowOrphans' = showOrphans
       /\ passOut' = UpdateGraphPass2(base, showOrphans)
  /\ passPc' = "done2"
  /\ UNCHANGED <<passExtra, passHasSel, passSelNode, mergeVars, sessionVars, recVars, classVars>>

PassNext == RunUpdateGraph \/ RunUpdateGraph2

SpecPass == PassInit /\ [][PassNext]_vars


(***************************************************************************)
(* Properties of the merger (SpecMerge)                                    *)
(***************************************************************************)
IdsOf(list) == {list[i].id : i \in 1..Len(list)} \ {NoId}

FirstIn(list, n) ==
  list[CHOOSE i \in 1..Len(list) :
         list[i].id = n /\ \A j \in 1..(i - 1) : list[j].id # n]

\* out holds exactly one element for every id that A and B share, A's
FirstWriteWins(A, B, out) ==
  \A n \in IdsOf(A) \cap IdsOf(B) :
    /\ Cardinality({k \in 1..Len(out) : out[k].id = n}) = 1
    /\ \A k \in 1..Len(out) : out[k].id = n => out[k] = FirstIn(A, n)

\* C1: merge is first-write-wins. For graphs A and B that share an id, the
\* merged graph holds exactly one element of that id and it is A's version,
\* in both uses of the merger: base fetch then extraGraph, and extraGraph
\* then a new expansion response.
C1_FirstWriteWins ==
  mergePc \in {"baseExtra", "extraResponse"} =>
    /\ FirstWriteWins(mergeA.nodes, mergeB.nodes, mergeOut.nodes)
    /\ FirstWriteWins(mergeA.edges, mergeB.edges, mergeOut.edges)

\* a merge of two graphs that disagree on a shared node id has been done, and
\* B's version is not in the result
C1_Witness ==
  /\ mergePc = "extraResponse"
  /\ \E n \in IdsOf(mergeA.nodes) \cap IdsOf(mergeB.nodes) :
       /\ FirstIn(mergeA.nodes, n) # FirstIn(mergeB.nodes, n)
       /\ FirstIn(mergeA.nodes, n) \in SeqToSet(mergeOut.nodes)
       /\ FirstIn(mergeB.nodes, n) \notin SeqToSet(mergeOut.nodes)

\* C2: merge is idempotent. merge([G, G]) equals merge([G]): the same ids,
\* the same first-seen data for each id, in the same order.
C2_IdempotentMerge ==
  mergePc = "self" => mergeOut = MergeOne(mergeA)

\* merge([G, G]) has been computed for a graph G that itself repeats an id
C2_Witness ==
  /\ mergePc = "self"
  /\ \E i, j \in 1..Len(mergeA.nodes) :
       i < j /\ mergeA.nodes[i].id = mergeA.nodes[j].id
             /\ mergeA.nodes[i].id # NoId
             /\ mergeA.nodes[i] # mergeA.nodes[j]
  /\ Len(mergeOut.nodes) = 1

(***************************************************************************)
(* Properties of one graph-assembly pass (SpecPass)                        *)
(***************************************************************************)
PassDone == passPc \in {"done1", "done2"}

\* the node data a pass of the first variant receives, in arrival order
IncomingNodes ==
  IF passHasSel THEN passBase.nodes ELSE passBase.nodes \o passExtra.nodes

\* C3: in every pass of updateGraph, with or without active object
\* selections, the node collection given to the indexer holds each id at
\* most once, and the data kept for an id (in the merged node list and in
\* the node's connection record) is that of its first occurrence.
C3_UniqueFirstOccurrence ==
  passPc = "done1" =>
    LET ns == passOut.merged.nodes
    IN /\ \A i, j \in 1..Len(ns) : ns[i].id = ns[j].id => i = j
       /\ \A i \in 1..Len(ns) : ns[i] = FirstIn(IncomingNodes, ns[i].id)
       /\ \A id \in DOMAIN passOut.conn :
            passOut.conn[id].node = FirstIn(IncomingNodes, id)

\* the edges of the merged graph whose source and target are both ids of
\* nodes of the merged graph, by position
MergedIds == IdsOf(passOut.merged.nodes)
IsValidEdge(e) == e.source \in MergedIds /\ e.target \in MergedIds
ValidPositions ==
  {i \in 1..Len(passOut.merged.edges) : IsValidEdge(passOut.merged.edges[i])}
InvalidPositions == (1..Len(passOut.merged.edges)) \ ValidPositions

OrphanIds == {passOut.orphanNodes[i].id : i \in 1..Len(passOut.orphanNodes)}

\* C4: orphan completeness. After a pass, a node is classified as an orphan
\* iff its id is neither source nor target of any valid edge; a node whose
\* only incident edges have a missing other endpoint is an orphan.
C4_OrphanCompleteness ==
  PassDone =>
    \A v \in MergedIds :
      v \in OrphanIds <=>
        ~\E i \in ValidPositions :
            passOut.merged.edges[i].source = v \/ passOut.merged.edges[i].target = v


MergedEdge(i) == passOut.merged.edges[i]
ValidFrom(v) == {i \in ValidPositions : MergedEdge(i).source = v}
ValidInto(v) == {i \in ValidPositions : MergedEdge(i).target = v}
ValidOfTier(v, tier) ==
  {i \in ValidFrom(v) \cup ValidInto(v) :
     classifyRelationship(MergedEdge(i).type) = tier}

\* C5: dropped-edge safety. An edge whose source or target is not the id of
\* a merged node is in neither validEdges nor the rendered edges, adds no
\* inbound/outbound entry to any record, sets no flag and increments no
\* totalConnections; the pass goes on and the dropped edge is logged.
C5_DroppedEdgeSafety ==
  PassDone =>
    /\ \A i \in InvalidPositions :
         /\ \A k \in 1..Len(passOut.validEdges) :
              passOut.validEdges[k].edge # MergedEdge(i)
         /\ \A k \in 1..Len(passOut.styledEdges) :
              passOut.styledEdges[k].edge # MergedEdge(i)
         /\ MergedEdge(i) \in SeqToSet(passOut.warned)
    /\ Len(passOut.validEdges) = Cardinality(ValidPositions)
    /\ \A v \in DOMAIN passOut.conn :
         /\ Len(passOut.conn[v].outbound) = Cardinality(ValidFrom(v))
         /\ Len(passOut.conn[v].inbound) = Cardinality(ValidInto(v))
         /\ passOut.variant = 1 =>
              /\ passOut.conn[v].totalConnections =
                   Cardinality(ValidFrom(v)) + Cardinality(ValidInto(v))
              /\ passOut.conn[v].hasDirectConnections => ValidOfTier(v, "direct") # {}
              /\ passOut.conn[v].hasIndirectConnections => ValidOfTier(v, "indirect") # {}
              /\ passOut.conn[v].hasMetadataConnections => ValidOfTier(v, "metadata") # {}

\* the node a pass outputs for id v is present and carries tag
OutputTagged(v, tag) ==
  /\ \E k \in 1..Len(passOut.styledNodes) : passOut.styledNodes[k].id = v
  /\ \A k \in 1..Len(passOut.styledNodes) :
       passOut.styledNodes[k].id = v => passOut.styledNodes[k].isOrphan = tag

\* C6: never drop, always tag. Every node of the merged graph is in the node
\* collection a pass outputs; one with no valid connection is present and
\* tagged isOrphan, one with a valid connection is present and not tagged.
C6_NeverDropAlwaysTag ==
  PassDone =>
    \A v \in MergedIds :
      IF ValidFrom(v) \cup ValidInto(v) = {}
      THEN OutputTagged(v, TRUE)
      ELSE OutputTagged(v, FALSE)

IncidentTo(v) == ValidFrom(v) \cup ValidInto(v)
OtherEnd(i, v) ==
  IF MergedEdge(i).source = v THEN MergedEdge(i).target ELSE MergedEdge(i).source

\* C7: highlight computation. With nothing selected both sets are empty.
\* Otherwise highlightedNodes is the selected node and the other endpoint of
\* every valid edge incident to it, highlightedEdges the ids of those
\* edges, and no edge that is not incident to the selected node is
\* highlighted.
C7_Highlight ==
  passPc = "done1" =>
    IF passSelNode = NoSel
    THEN passOut.highlightedNodes = {} /\ passOut.highlightedEdges = {}
    ELSE /\ passOut.highlightedNodes =
              {passSelNode} \cup {OtherEnd(i, passSelNode) : i \in IncidentTo(passSelNode)}
         /\ passOut.highlightedEdges =
              {MergedEdge(i).id : i \in IncidentTo(passSelNode)}
         /\ \A k \in 1..Len(passOut.styledEdges) :
              passOut.styledEdges[k].isHighlighted =>
                \/ passOut.styledEdges[k].edge.source = passSelNode
                \/ passOut.styledEdges[k].edge.target = passSelNode


(***************************************************************************)
(* Spec: the session (first UI variant)                                    *)
(***************************************************************************)
\* the objects of the sidebar and the assets of the modelled backend
Objects == {"o1"}
SessionIds == {"A", "B", "C"}

Node(id, d) == [id |-> id, d |-> d]
Edge(id, source, target, type) ==
  [id |-> id, source |-> source, target |-> target, type |-> type]

\* GET /graph without a selection: every asset the backend shows by default
AllGraph ==
  [nodes |-> <<Node("A", "v1"), Node("B", "v1")>>,
   edges |-> <<Edge("b1", "A", "B", "writes_to")>>]

\* GET /graph?selectedObjects=...: the selected asset and what it relates to
FocusedGraph ==
  [nodes |-> <<Node("A", "v1"), Node("C", "v1")>>,
   edges |-> <<Edge("b2", "A", "C", "reads_from")>>]

\* const hasActiveSelections = some category has some object selected
hasActiveSelections(objs) == objs # {}

\* fetchGraphData(showAllObjects ? {} : selectedObjects), when it succeeds
fetchGraphData(env) ==
  IF env.showAllObjects \/ ~hasActiveSelections(env.selectedObjects)
  THEN AllGraph ELSE FocusedGraph

\* fetchExpandDependencies(nodeId), when it succeeds: the node and its one-hop
\* neighbourhood, with the payload the expansion endpoint gives them
fetchExpandDependencies(nodeId) ==
  IF nodeId = "A"
  THEN [nodes |-> <<Node("A", "xA"), Node("B", "xA")>>,
        edges |-> <<Edge("x1", "A", "B", "writes_to")>>]
  ELSE IF nodeId = "B"
  THEN [nodes |-> <<Node("B", "xB"), Node("C", "xB")>>,
        edges |-> <<Edge("x2", "B", "C", "next_step")>>]
  ELSE [nodes |-> <<Node("C", "xC"), Node("A", "xC")>>,
        edges |-> <<Edge("x3", "C", "A", "filters_de")>>]

\* the answers the expansion endpoint may give for nodeId: it reads live data,
\* so a later call for A may find the relationship A -> C that an earlier
\* one did not
ExpandAnswers(nodeId) ==
  {fetchExpandDependencies(nodeId)} \cup
  (IF nodeId = "A"
   THEN {[nodes |-> <<Node("A", "yA"), Node("B", "yA"), Node("C", "yA")>>,
          edges |-> <<Edge("x1", "A", "B", "imports_to_de"),
                      Edge("x4", "A", "C", "reads_from")>>]}
   ELSE {})

CurrentEnv == EnvOf(selectedObjects, showAllObjects, selectedNodeId, extraGraph)

\* an updateGraph call awaiting loadGraphData()
PassOf(env, origin, fin) == [env |-> env, origin |-> origin, finally |-> fin]

\* updateGraph after its await, for the closure env and the graph base that
\* loadGraphData returned: what it gives to setGraphElements and
\* setHighlightedElements
Publish(env, base, origin) ==
  [kind |-> "graph", env |-> env, base |-> base, origin |-> origin,
   out |-> UpdateGraphPass(base, env.extraGraph,
                           hasActiveSelections(env.selectedObjects),
                           env.selectedNodeId)]

\* the output of the pass that published last (nothing before the first)
OutputOf(pub) == pub.out

\* graphElements: the styled nodes last given to setGraphElements
GraphNodes(pub) == IF pub.kind = "graph" THEN OutputOf(pub).styledNodes ELSE <<>>
\* highlightedElements, which setGraphElements([]) leaves as it was
HighlightedElements(pub) ==
  OutputOf(pub).highlightedNodes \cup OutputOf(pub).highlightedEdges

\* useEffect([selectedObjects, updateGraph, showAllObjects]) after a render
\* with the state env: run updateGraph, or clear the graph
EffectRuns(env) == hasActiveSelections(env.selectedObjects) \/ env.showAllObjects

\* the async calls in flight are kept as bags: which of them settles next
\* does not depend on the order in which they were started
Started(calls, c) == calls (+) SetToBag({c})
Settled(calls, c) == calls (-) SetToBag({c})
InFlight(calls) == BagCardinality(calls)

EffectPasses(ps, env, origin) ==
  IF EffectRuns(env) THEN Started(ps, PassOf(env, origin, FALSE)) ELSE ps

EffectPublished(pub, env) ==
  IF EffectRuns(env) THEN pub ELSE [pub EXCEPT !.kind = "cleared"]

\* mutant: a click always selects the clicked node
ToggleSelectionNever(current, id) == id

\* if (selectedNodeId === nodeData.id) setSelectedNodeId(null)
\* else setSelectedNodeId(nodeData.id)
ToggleSelection(current, id) == IF current = id THEN NoSel ELSE id

\* handleObjectSelect(category, objectId, !checked) and the effect it causes
HandleObjectSelect(o) ==
  /\ ops < MaxOps /\ InFlight(passes) < MaxPasses
  /\ LET isSelected == o \notin selectedObjects
         objs == IF isSelected THEN selectedObjects \cup {o} ELSE selectedObjects \ {o}
         showAll == IF isSelected /\ showAllObjects THEN FALSE ELSE showAllObjects
         env == EnvOf(objs, showAll, selectedNodeId, extraGraph)
     IN /\ selectedObjects' = objs
        /\ showAllObjects' = showAll
        /\ rightSideLoading' = (isSelected \/ rightSideLoading)
        /\ passes' = EffectPasses(passes, env, "objects")
        /\ published' = EffectPublished(published, env)
        /\ apiLoading' = (EffectRuns(env) \/ apiLoading)
        /\ apiError' = (~EffectRuns(env) /\ apiError)
  /\ ops' = ops + 1 /\ lastOp' = "select"
  /\ UNCHANGED <<selectedNodeId, extraGraph, isExpanding, exps, diagnostics,
                 mergeVars, passVars, recVars, classVars>>

\* the Show All / Focused button and the effect it causes
ToggleShowAll ==
  /\ ops < MaxOps /\ InFlight(passes) < MaxPasses
  /\ LET objs == IF ~showAllObjects THEN {} ELSE selectedObjects
         env == EnvOf(objs, ~showAllObjects, selectedNodeId, extraGraph)
     IN /\ showAllObjects' = ~showAllObjects
        /\ selectedObjects' = objs
        /\ passes' = EffectPasses(passes, env, "showAll")
        /\ published' = EffectPublished(published, env)
        /\ apiLoading' = (EffectRuns(env) \/ apiLoading)
        /\ apiError' = (~EffectRuns(env) /\ apiError)
  /\ ops' = ops + 1 /\ lastOp' = "showAll"
  /\ UNCHANGED <<selectedNodeId, extraGraph, isExpanding, rightSideLoading, exps,
                 diagnostics, mergeVars, passVars, recVars, classVars>>

\* the ids of the nodes on screen, which a tap or a card can target
ShownIds == {GraphNodes(published)[k].id : k \in 1..Len(GraphNodes(published))}

\* the selection change of a click and the effect it causes (updateGraph is
\* rebuilt when selectedNodeId changes, which re-runs the effect)
SelectNode(id) ==
  /\ ops < MaxOps /\ InFlight(passes) < MaxPasses
  /\ id \in ShownIds
  /\ LET sel == ToggleSelection(selectedNodeId, id)
         env == EnvOf(selectedObjects, showAllObjects, sel, extraGraph)
     IN /\ selectedNodeId' = sel
        /\ passes' = EffectPasses(passes, env,
                                  IF sel = NoSel THEN "deselect" ELSE "select")
        /\ published' = EffectPublished(published, env)
        /\ apiLoading' = (EffectRuns(env) \/ apiLoading)
        /\ apiError' = (~EffectRuns(env) /\ apiError)
  /\ ops' = ops + 1 /\ lastOp' = "node"
  /\ UNCHANGED <<selectedObjects, showAllObjects, extraGraph, isExpanding,
                 rightSideLoading, exps, diagnostics, mergeVars, passVars, recVars, classVars>>

\* mutant: a tap also drops the accumulated expansions
HandleNodeClickClears(id) ==
  /\ ops < MaxOps /\ InFlight(passes) < MaxPasses
  /\ id \in ShownIds
  /\ LET sel == ToggleSelection(selectedNodeId, id)
         env == EnvOf(selectedObjects, showAllObjects, sel, EmptyGraph)
     IN /\ selectedNodeId' = sel
        /\ extraGraph' = EmptyGraph
        /\ passes' = EffectPasses(passes, env,
                                  IF sel = NoSel THEN "deselect" ELSE "select")
        /\ published' = EffectPublished(published, env)
        /\ apiLoading' = (EffectRuns(env) \/ apiLoading)
        /\ apiError' = (~EffectRuns(env) /\ apiError)
  /\ ops' = ops + 1 /\ lastOp' = "node"
  /\ UNCHANGED <<selectedObjects, showAllObjects, isExpanding,
                 rightSideLoading, exps, diagnostics, mergeVars, passVars, recVars, classVars>>

\* cytoscape tap on a node
HandleNodeClick(id) == SelectNode(id)

\* onSelectNode of the card board
HandleCardSelect(id) == SelectNode(id)


\* an expandSelectedNode call awaiting fetchExpandDependencies(node); env is
\* what the updateGraph it will call has captured
ExpOf(node, env) == [kind |-> "one", node |-> node, env |-> env]

\* expandSelectedNode up to its await: if (!selectedNodeId) return;
\* setIsExpanding(true); fetchExpandDependencies(selectedNodeId)
StartExpandOne ==
  /\ ops < MaxOps /\ InFlight(exps) < MaxExps
  /\ selectedNodeId # NoSel
  /\ isExpanding' = TRUE
  /\ exps' = Started(exps, ExpOf(selectedNodeId, CurrentEnv))
  /\ ops' = ops + 1 /\ lastOp' = "expand"
  /\ UNCHANGED <<selectedObjects, showAllObjects, selectedNodeId, extraGraph,
                 apiLoading, apiError, rightSideLoading, published, passes,
                 diagnostics, mergeVars, passVars, recVars, classVars>>

\* drawer button "Expand Dependencies": disabled={!selectedNodeId || isExpanding}
ExpandButton == ~isExpanding /\ StartExpandOne

\* card board onExpandNode={() => expandSelectedNode()}
CardExpand == StartExpandOne

\* mutant: the response replaces what was accumulated
ExpandedExtraReplace(prev, data) ==
  [nodes |-> dedupeById(data.nodes), edges |-> dedupeById(data.edges)]

\* setExtraGraph(prev => ({nodes: dedupeById([...prev.nodes, ...newNodes]), ...}))
ExpandedExtra(prev, data) == ExpandMerge(prev, data)

\* the fetch of expansion e answers data: merge it into extraGraph, call the
\* captured updateGraph, and the effect re-runs for the new extraGraph
ExpandOneGets(e, data) ==
  /\ BagIn(e, exps) /\ e.kind = "one"
  /\ InFlight(passes) + 2 <= MaxPasses
  /\ LET extra == ExpandedExtra(extraGraph, data)
         env == EnvOf(selectedObjects, showAllObjects, selectedNodeId, extra)
     IN /\ extraGraph' = extra
        /\ passes' = EffectPasses(Started(passes, PassOf(e.env, "expand", TRUE)),
                                  env, "extraGraph")
        /\ published' = EffectPublished(published, env)
  /\ exps' = Settled(exps, e)
  /\ apiLoading' = TRUE /\ apiError' = FALSE
  /\ UNCHANGED <<selectedObjects, showAllObjects, selectedNodeId, isExpanding,
                 rightSideLoading, diagnostics, ops, lastOp, mergeVars, passVars, recVars, classVars>>

ExpandOneOk(e) == \E data \in ExpandAnswers(e.node) : ExpandOneGets(e, data)

\* mutant: the failure handler drops the accumulated expansions
ExpandOneFailClears(e) ==
  /\ BagIn(e, exps) /\ e.kind = "one"
  /\ extraGraph' = EmptyGraph
  /\ diagnostics' = diagnostics \cup {"expand"}
  /\ isExpanding' = FALSE
  /\ exps' = Settled(exps, e)
  /\ UNCHANGED <<selectedObjects, showAllObjects, selectedNodeId,
                 apiLoading, apiError, rightSideLoading, published, passes, ops, lastOp,
                 mergeVars, passVars, recVars, classVars>>

\* mutant: the failure handler leaves the flag as it is
ExpandOneFailNoFinally(e) ==
  /\ BagIn(e, exps) /\ e.kind = "one"
  /\ diagnostics' = diagnostics \cup {"expand"}
  /\ exps' = Settled(exps, e)
  /\ UNCHANGED <<selectedObjects, showAllObjects, selectedNodeId, extraGraph, isExpanding,
                 apiLoading, apiError, rightSideLoading, published, passes, ops, lastOp,
                 mergeVars, passVars, recVars, classVars>>

\* the fetch of expansion i fails: catch { console.error } finally
\* { setIsExpanding(false) }
ExpandOneFail(e) ==
  /\ BagIn(e, exps) /\ e.kind = "one"
  /\ diagnostics' = diagnostics \cup {"expand"}
  /\ isExpanding' = FALSE
  /\ exps' = Settled(exps, e)
  /\ UNCHANGED <<selectedObjects, showAllObjects, selectedNodeId, extraGraph,
                 apiLoading, apiError, rightSideLoading, published, passes, ops, lastOp,
                 mergeVars, passVars, recVars, classVars>>

\* resetExpansions (button shown while extraGraph is not empty):
\* setExtraGraph({nodes: [], edges: []}); await updateGraph()
ResetExpansions ==
  /\ ops < MaxOps /\ InFlight(passes) + 2 <= MaxPasses
  /\ extraGraph # EmptyGraph
  /\ LET env == EnvOf(selectedObjects, showAllObjects, selectedNodeId, EmptyGraph)
     IN /\ extraGraph' = EmptyGraph
        /\ passes' = EffectPasses(Started(passes, PassOf(CurrentEnv, "reset", FALSE)),
                                  env, "extraGraph")
        /\ published' = EffectPublished(published, env)
  /\ apiLoading' = TRUE /\ apiError' = FALSE
  /\ ops' = ops + 1 /\ lastOp' = "reset"
  /\ UNCHANGED <<selectedObjects, showAllObjects, selectedNodeId, isExpanding,
                 rightSideLoading, exps, diagnostics, mergeVars, passVars, recVars, classVars>>

\* pass i gets its graph: updateGraph runs to setGraphElements; an
\* expansion awaiting this pass then runs its finally
PassOk(p) ==
  /\ BagIn(p, passes)
  /\ published' = Publish(p.env, fetchGraphData(p.env),
                          p.origin)
  /\ apiLoading' = FALSE /\ rightSideLoading' = FALSE
  /\ isExpanding' = (isExpanding /\ ~p.finally)
  /\ passes' = Settled(passes, p)
  /\ UNCHANGED <<selectedObjects, showAllObjects, selectedNodeId, extraGraph,
                 apiError, exps, diagnostics, ops, lastOp, mergeVars, passVars, recVars, classVars>>

\* PassFail for a loadGraphData without its catch: the rejection leaves
\* updateGraph before anything is published or recorded (a variant used to
\* test the claims about a failed graph fetch)
PassFailThrows(p) ==
  /\ BagIn(p, passes)
  /\ diagnostics' = diagnostics \cup {"graph"}
  /\ apiLoading' = FALSE
  /\ isExpanding' = (isExpanding /\ ~p.finally)
  /\ passes' = Settled(passes, p)
  /\ UNCHANGED <<selectedObjects, showAllObjects, selectedNodeId, extraGraph,
                 apiError, rightSideLoading, published,
                 exps, ops, lastOp, mergeVars, passVars, recVars, classVars>>

\* the fetch of pass i fails: loadGraphData records the error and returns
\* { nodes: [], edges: [] }, with which updateGraph runs on
PassFail(p) ==
  /\ BagIn(p, passes)
  /\ published' = Publish(p.env, EmptyGraph, p.origin)
  /\ apiError' = TRUE
  /\ diagnostics' = diagnostics \cup {"graph"}
  /\ apiLoading' = FALSE /\ rightSideLoading' = FALSE
  /\ isExpanding' = (isExpanding /\ ~p.finally)
  /\ passes' = Settled(passes, p)
  /\ UNCHANGED <<selectedObjects, showAllObjects, selectedNodeId, extraGraph,
                 exps, ops, lastOp, mergeVars, passVars, recVars, classVars>>

Init == SessionIdle /\ MergeIdle /\ PassIdle /\ RecOff /\ ClassOff

Next ==
  \/ \E o \in Objects : HandleObjectSelect(o)
  \/ ToggleShowAll
  \/ \E id \in SessionIds : HandleNodeClick(id)
  \/ \E id \in SessionIds : HandleCardSelect(id)
  \/ ExpandButton
  \/ CardExpand
  \/ \E e \in BagToSet(exps) : ExpandOneOk(e)
  \/ \E e \in BagToSet(exps) : ExpandOneFail(e)
  \/ ResetExpansions
  \/ \E p \in BagToSet(passes) : PassOk(p)
  \/ \E p \in BagToSet(passes) : PassFail(p)

Spec == Init /\ [][Next]_vars


\* the passes whose closure saw "nothing selected" right after a deselecting
\* click compute no highlight, whatever the fetch gives them
DeselectPassHighlights(env) ==
  LET out(base) == UpdateGraphPass(base, env.extraGraph,
                                   hasActiveSelections(env.selectedObjects),
                                   env.selectedNodeId)
  IN UNION {out(b).highlightedNodes \cup out(b).highlightedEdges :
            b \in {fetchGraphData(env), EmptyGraph}}

\* C8: a graph tap or a card select on the selected node sets selectedNodeId to
\* "nothing selected" and the pass that follows computes two empty highlight
\* sets; on any other node it sets selectedNodeId to that node's id
C8_SelectionToggle ==
  /\ [][\A n \in SessionIds :
          (HandleNodeClick(n) \/ HandleCardSelect(n)) =>
            /\ selectedNodeId' = (IF selectedNodeId = n THEN NoSel ELSE n)
            /\ (selectedNodeId = n =>
                  \A p \in BagToSet(passes') :
                    CopiesIn(p, passes') > CopiesIn(p, passes) =>
                      p.origin = "deselect" /\ p.env.selectedNodeId = NoSel)]_vars
  /\ [](\A p \in BagToSet(passes) :
          p.origin = "deselect" => DeselectPassHighlights(p.env) = {})
  /\ [](published.origin = "deselect" => HighlightedElements(published) = {})

\* a deselecting click's pass has published a graph with nodes and no highlight
C8_Witness ==
  /\ published.kind = "graph" /\ published.origin = "deselect"
  /\ selectedNodeId = NoSel
  /\ GraphNodes(published) # <<>>
  /\ HighlightedElements(published) = {}

\* C9: when the expansion fetch fails, extraGraph stays as it was (nodes and
\* edges), the failure is logged, nothing else of the session is disturbed and
\* the expanding flag is released so that further operations can run
C9_ExpandFailsSoftly ==
  [][\A e \in BagToSet(exps) :
       ExpandOneFail(e) =>
         /\ extraGraph' = extraGraph
         /\ "expand" \in diagnostics'
         /\ published' = published /\ passes' = passes
         /\ selectedNodeId' = selectedNodeId /\ selectedObjects' = selectedObjects
         /\ isExpanding' = FALSE]_vars

\* an expansion has failed in a session that holds expanded elements, and the
\* session is idle again
C9_Witness ==
  /\ "expand" \in diagnostics
  /\ extraGraph # EmptyGraph
  /\ exps = EmptyBag /\ ~isExpanding

\* C10: when the expansion fetch returns R, extraGraph becomes the merge of the
\* previous extraGraph and R: ids already present keep their data, the new ids
\* of R are added, and no id is removed
C10_ExpandMerges ==
  [][\A e \in BagToSet(exps) :
       \A R \in ExpandAnswers(e.node) :
         ExpandOneGets(e, R) =>
            /\ extraGraph' = MergeGraphs(extraGraph, R)
            /\ \A k \in 1..Len(extraGraph.nodes) :
                 \E j \in 1..Len(extraGraph'.nodes) :
                   extraGraph'.nodes[j] = extraGraph.nodes[k]
            /\ \A k \in 1..Len(extraGraph.edges) :
                 \E j \in 1..Len(extraGraph'.edges) :
                   extraGraph'.edges[j] = extraGraph.edges[k]
            /\ IdsOf(extraGraph'.nodes) = IdsOf(extraGraph.nodes) \cup IdsOf(R.nodes)
            /\ IdsOf(extraGraph'.edges) = IdsOf(extraGraph.edges) \cup IdsOf(R.edges)
            /\ Len(extraGraph'.nodes) = Cardinality(IdsOf(extraGraph'.nodes))
            /\ Len(extraGraph'.edges) = Cardinality(IdsOf(extraGraph'.edges))]_vars

\* A was expanded twice: A, B and the edge x1 keep what the first answer said
\* of them, C and x4 come from the second
C10_Witness ==
  /\ extraGraph.nodes = <<Node("A", "xA"), Node("B", "xA"), Node("C", "yA")>>
  /\ extraGraph.edges = <<Edge("x1", "A", "B", "writes_to"),
                          Edge("x4", "A", "C", "reads_from")>>


\* C11: every pass that runs with accumulated expansions gives the indexer
\* merge([base fetch result, extraGraph]), so that every node and edge of
\* extraGraph is part of the assembled graph
C11_AssemblyIncludesExpansions ==
  published.kind = "graph" /\ published.env.extraGraph # EmptyGraph =>
    /\ published.out.merged = MergeGraphs(published.base, published.env.extraGraph)
    /\ IdsOf(published.env.extraGraph.nodes) \subseteq IdsOf(published.out.merged.nodes)
    /\ IdsOf(published.env.extraGraph.edges) \subseteq IdsOf(published.out.merged.edges)


(***************************************************************************)
(* SpecRec: one call of expandSelectedNodeRecursively                      *)
(***************************************************************************)
\* deepest maxDepth argument explored (the drawer button passes 3)
MaxDepth == 3

\* the node ids the expansion endpoint knows, in the order it lists them
RecOrder == <<"A", "B", "C">>
RecIds == SeqToSet(RecOrder)

\* the endpoint: for every node id the ids of the nodes its answer holds
\* (any relation, cyclic ones and answers without the node asked for too)
Worlds == [RecIds -> SUBSET RecIds]
\* the node ids whose fetch is rejected
FailingSets == {F \in SUBSET RecIds : Cardinality(F) <= 1}
\* extraGraph when the call starts: nothing, or an earlier expansion's rest
PriorExtras ==
  {EmptyGraph, [nodes |-> <<Node("B", "old")>>, edges |-> <<>>]}

\* res of fetchExpandDependencies(nodeId) in the world w: the nodes carry the
\* payload of this answer, the edges lead from nodeId to the other nodes
RecResponse(w, nodeId) ==
  LET ids == SelectSeq(RecOrder, LAMBDA m : m \in w[nodeId])
      others == SelectSeq(ids, LAMBDA m : m # nodeId)
  IN [nodes |-> [i \in 1..Len(ids) |-> Node(ids[i], "x" \o nodeId)],
      edges |-> [i \in 1..Len(others) |->
                   Edge(nodeId \o ">" \o others[i], nodeId, others[i], "writes_to")]]

\* mutant: the loop runs until the frontier is empty
LoopContinuesNoDepth(frontier, depth, maxDepth) == frontier # {}

\* while (frontier.length && depth < maxDepth)
LoopContinues(frontier, depth, maxDepth) == frontier # {} /\ depth < maxDepth

\* mutant: the level goes on as soon as it was issued (no await of the fetches)
LevelSettledAtOnce(pending) == TRUE

\* await Promise.all(frontier.map(...)): every fetch of the level has settled
LevelSettled(pending) == pending = {}

\* the loop head: either the next level is issued (one fetch per frontier
\* node, all at once) or the loop is left for await updateGraph()
EnterLoop(r) ==
  IF LoopContinues(r.frontier, r.depth, r.maxDepth)
  THEN [r EXCEPT !.pc = "level", !.nextFrontier = {},
                 !.pending = @ \cup {[node |-> n, level |-> r.depth + 1] : n \in r.frontier},
                 !.rounds = Append(@, [fetched |-> r.frontier, visited |-> r.visited])]
  ELSE [r EXCEPT !.pc = "rebuild"]

\* the call's locals at its loop head for the first time: visited from the
\* captured extraGraph, frontier = [selectedNodeId], depth = 0; with them the
\* endpoint's behaviour during this call and the record of the rounds
\* RecCall with the start node put into visited as well (a variant used to
\* test the claims about the frontier)
RecCallSeedsStart(w, failing, maxDepth, env) ==
  [pc |-> "idle", world |-> w, failing |-> failing, maxDepth |-> maxDepth,
   env |-> env, visited |-> IdsOf(env.extraGraph.nodes) \cup {env.selectedNodeId},
   frontier |-> {env.selectedNodeId}, nextFrontier |-> {},
   depth |-> 0, pending |-> {}, rounds |-> <<>>, merged |-> {}, warned |-> {},
   arrived |-> <<>>]

RecCall(w, failing, maxDepth, env) ==
  [pc |-> "idle", world |-> w, failing |-> failing, maxDepth |-> maxDepth,
   env |-> env, visited |-> IdsOf(env.extraGraph.nodes),
   frontier |-> {env.selectedNodeId}, nextFrontier |-> {},
   depth |-> 0, pending |-> {}, rounds |-> <<>>, merged |-> {}, warned |-> {},
   arrived |-> <<>>]

\* the drawer is open on a node and Expand All has not been pressed
RecIdle == [pc |-> "idle", maxDepth |-> 0, depth |-> 0, pending |-> {},
            rounds |-> <<>>, frontier |-> {}]

\* a session in show-all mode with node A selected and its graph on screen
RecInit ==
  /\ rec = RecIdle
  /\ selectedObjects = {} /\ showAllObjects = TRUE /\ selectedNodeId = "A"
  /\ extraGraph \in PriorExtras
  /\ isExpanding = FALSE
  /\ apiLoading = FALSE /\ apiError = FALSE /\ rightSideLoading = FALSE
  /\ published = Publish(CurrentEnv, AllGraph, "select")
  /\ passes = EmptyBag /\ exps = EmptyBag /\ diagnostics = {} /\ ops = 0 /\ lastOp = "none"
  /\ MergeIdle /\ PassIdle /\ ClassOff


recFrame == <<selectedObjects, showAllObjects, selectedNodeId, passes, exps, ops, lastOp,
              mergeVars, passVars, classVars>>

\* the call up to its first await, for a maxDepth argument and an endpoint
\* drawn here: if (!selectedNodeId) return; setIsExpanding(true); the
\* locals; the loop head
RecStartWith(w, failing, maxDepth) ==
  /\ rec.pc = "idle" /\ selectedNodeId # NoSel
  /\ isExpanding' = TRUE
  /\ rec' = EnterLoop(RecCall(w, failing, maxDepth, CurrentEnv))
  /\ apiLoading' = (rec'.pc = "rebuild" \/ apiLoading)
  /\ apiError' = (rec'.pc # "rebuild" /\ apiError)
  /\ UNCHANGED <<extraGraph, rightSideLoading, published, diagnostics, recFrame>>

RecStart ==
  /\ rec.pc = "idle"
  /\ \E w \in Worlds, failing \in FailingSets, maxDepth \in 0..MaxDepth :
       RecStartWith(w, failing, maxDepth)

\* RecFetchOk with the spread order swapped in setExtraGraph: the incoming
\* elements come before prev (a variant used to test the claims about the
\* data that is kept)
RecFetchOkIncomingFirst(f) ==
  /\ f \in rec.pending /\ f.node \notin rec.failing
  /\ LET res == RecResponse(rec.world, f.node)
         new == IdsOf(res.nodes) \ rec.visited
     IN /\ extraGraph' = MergeGraphs(res, extraGraph)
        /\ rec' = [rec EXCEPT !.visited = @ \cup new,
                              !.nextFrontier = @ \cup new,
                              !.pending = @ \ {f},
                              !.merged = @ \cup {f},
                              !.arrived = Append(@, f)]
  /\ UNCHANGED <<isExpanding, apiLoading, apiError, rightSideLoading, published,
                 diagnostics, recFrame>>

\* the fetch f answers: setExtraGraph(prev => dedupeById([...prev, ...res])),
\* then every node id of res not yet visited joins visited and nextFrontier
RecFetchOk(f) ==
  /\ f \in rec.pending /\ f.node \notin rec.failing
  /\ LET res == RecResponse(rec.world, f.node)
         new == IdsOf(res.nodes) \ rec.visited
     IN /\ extraGraph' = MergeGraphs(extraGraph, res)
        /\ rec' = [rec EXCEPT !.visited = @ \cup new,
                              !.nextFrontier = @ \cup new,
                              !.pending = @ \ {f},
                              !.merged = @ \cup {f},
                              !.arrived = Append(@, f)]
  /\ UNCHANGED <<isExpanding, apiLoading, apiError, rightSideLoading, published,
                 diagnostics, recFrame>>

\* RecFetchFail without the inner try/catch: the rejection reaches Promise.all,
\* the outer catch and the finally, and the call ends without its other
\* fetches (a variant used to test the claims about a failed fetch)
RecFetchFailAborts(f) ==
  /\ f \in rec.pending /\ f.node \in rec.failing
  /\ rec' = [rec EXCEPT !.pending = {}, !.warned = @ \cup {f}, !.pc = "done"]
  /\ diagnostics' = diagnostics \cup {"expandAll"}
  /\ isExpanding' = FALSE
  /\ UNCHANGED <<extraGraph, apiLoading, apiError, rightSideLoading,
                 published, recFrame>>

\* the fetch f is rejected: catch (err) { console.warn(...) }
RecFetchFail(f) ==
  /\ f \in rec.pending /\ f.node \in rec.failing
  /\ rec' = [rec EXCEPT !.pending = @ \ {f}, !.warned = @ \cup {f}]
  /\ diagnostics' = diagnostics \cup {"expandAll"}
  /\ UNCHANGED <<extraGraph, isExpanding, apiLoading, apiError, rightSideLoading,
                 published, recFrame>>

\* Promise.all resolves: frontier = Array.from(nextFrontier); depth += 1;
\* the loop head
RecLevelDone ==
  /\ rec.pc = "level" /\ LevelSettled(rec.pending)
  /\ rec' = EnterLoop([rec EXCEPT !.frontier = rec.nextFrontier, !.depth = @ + 1])
  /\ apiLoading' = (rec'.pc = "rebuild" \/ apiLoading)
  /\ apiError' = (rec'.pc # "rebuild" /\ apiError)
  /\ UNCHANGED <<extraGraph, isExpanding, rightSideLoading, published,
                 diagnostics, recFrame>>

\* await updateGraph() gets its graph and publishes for the captured state;
\* finally { setIsExpanding(false) }
RecRebuildOk ==
  /\ rec.pc = "rebuild"
  /\ published' = Publish(rec.env, fetchGraphData(rec.env), "expandAll")
  /\ apiLoading' = FALSE /\ rightSideLoading' = FALSE
  /\ isExpanding' = FALSE
  /\ rec' = [rec EXCEPT !.pc = "done"]
  /\ UNCHANGED <<extraGraph, apiError, diagnostics, recFrame>>

\* the graph fetch of await updateGraph() fails (loadGraphData catches it)
RecRebuildFail ==
  /\ rec.pc = "rebuild"
  /\ published' = Publish(rec.env, EmptyGraph, "expandAll")
  /\ apiError' = TRUE
  /\ diagnostics' = diagnostics \cup {"graph"}
  /\ apiLoading' = FALSE /\ rightSideLoading' = FALSE
  /\ isExpanding' = FALSE
  /\ rec' = [rec EXCEPT !.pc = "done"]
  /\ UNCHANGED <<extraGraph, recFrame>>

RecNext ==
  \/ RecStart
  \/ \E f \in rec.pending : RecFetchOk(f)
  \/ \E f \in rec.pending : RecFetchFail(f)
  \/ RecLevelDone
  \/ RecRebuildOk
  \/ RecRebuildFail

SpecRec == RecInit /\ [][RecNext]_vars


\* the steps a call has left at most: per level still allowed one step for
\* each fetch and one for Promise.all, then the rebuild
RecStepsLeft(r) ==
  LET perLevel == Cardinality(RecIds) + 1
  IN CASE r.pc = "idle" -> MaxDepth * perLevel + 2
       [] r.pc = "level" ->
            (r.maxDepth - r.depth - 1) * perLevel + Cardinality(r.pending) + 2
       [] r.pc = "rebuild" -> Cardinality(r.pending) + 1
       [] OTHER -> 0

\* some step of the call can be taken: the guards of RecStart, of the
\* settling of an outstanding fetch, of RecLevelDone and of the rebuild
RecCanStep ==
  \/ rec.pc = "idle" /\ selectedNodeId # NoSel
  \/ rec.pending # {}
  \/ rec.pc = "level" /\ LevelSettled(rec.pending)
  \/ rec.pc = "rebuild"

\* C12: whatever the endpoint answers (cyclic relations included), a call
\* with depth d issues at most d fetch rounds, none for an empty frontier,
\* leaves the loop before round d only when the frontier is empty, and
\* terminates once its fetches have settled: until it is done a step is
\* always possible, and every step brings it nearer to the end
C12_ExpansionTermination ==
  /\ [](rec.pc # "off" =>
          /\ Len(rec.rounds) <= rec.maxDepth
          /\ \A k \in 1..Len(rec.rounds) : rec.rounds[k].fetched # {})
  /\ [](rec.pc \in {"rebuild", "done"} =>
          Len(rec.rounds) = rec.maxDepth \/ rec.frontier = {})
  /\ [](rec.pc \in {"idle", "level", "rebuild"} =>
          RecStepsLeft(rec) > 0 /\ RecCanStep)
  /\ [][rec.pc # "off" => RecStepsLeft(rec') < RecStepsLeft(rec)]_vars

\* a cyclic world (A and B name each other) in which all three rounds of a
\* depth-3 call were issued, and the call is over
C12_Witness ==
  /\ rec.pc = "done"
  /\ rec.maxDepth = 3 /\ Len(rec.rounds) = 3
  /\ "B" \in rec.world["A"] /\ "A" \in rec.world["B"]


\* the fetches of round k that resolved, and those that were rejected
MergedAt(k) == {f \in rec.merged : f.level = k}

WarnedAt(k) == {f \in rec.warned : f.level = k}

\* round k is over: a later round was issued or the loop was left
RecRoundSettled(k) ==
  \/ Len(rec.rounds) > k
  \/ Len(rec.rounds) = k /\ rec.pc \in {"rebuild", "done"}

\* the frontier that followed round k
RecFrontierAfter(k) ==
  IF Len(rec.rounds) > k THEN rec.rounds[k + 1].fetched ELSE rec.frontier

\* the ids the resolved fetches of round k named that were unvisited when the
\* round began
RecContribution(k) ==
  UNION {IdsOf(RecResponse(rec.world, f.node).nodes) : f \in MergedAt(k)}
    \ rec.rounds[k].visited

\* C13: a rejected fetch does not abort its level.  The step that handles the
\* rejection leaves extraGraph, the next frontier, the visited set and the
\* position of the call alone and keeps every other fetch of the level
\* pending; once a round is over every node of its frontier was either merged
\* or rejected, extraGraph holds exactly the prior ids and the ids and edges of
\* the resolved fetches (nothing of a rejected one), the frontier that follows
\* is exactly the unvisited ids of the resolved fetches, and the next round is
\* issued whenever that frontier is non-empty and the depth allows it.
C13_PartialFailure ==
  /\ [](rec.pc \notin {"off", "idle"} =>
         /\ IdsOf(extraGraph.nodes) =
              IdsOf(rec.env.extraGraph.nodes) \cup
              UNION {IdsOf(RecResponse(rec.world, f.node).nodes) : f \in rec.merged}
         /\ IdsOf(extraGraph.edges) =
              IdsOf(rec.env.extraGraph.edges) \cup
              UNION {IdsOf(RecResponse(rec.world, f.node).edges) : f \in rec.merged}
         /\ \A k \in 1..Len(rec.rounds) :
              RecRoundSettled(k) =>
                /\ rec.rounds[k].fetched =
                     {f.node : f \in MergedAt(k) \cup WarnedAt(k)}
                /\ {f.node : f \in WarnedAt(k)} = rec.rounds[k].fetched \cap rec.failing
                /\ RecFrontierAfter(k) = RecContribution(k)
                /\ (k < rec.maxDepth /\ RecContribution(k) # {} => Len(rec.rounds) > k))
  /\ [][\A f \in rec.pending :
          f \in rec'.warned =>
            /\ extraGraph' = extraGraph
            /\ rec'.nextFrontier = rec.nextFrontier
            /\ rec'.visited = rec.visited
            /\ rec'.pc = rec.pc
            /\ rec'.pending = rec.pending \ {f}]_vars

\* a second-level fetch is rejected while its sibling resolves and names an
\* unvisited node, and the third round is issued for it
C13_Witness ==
  /\ rec.pc = "done"
  /\ Len(rec.rounds) = 3
  /\ rec.rounds[2].fetched = {"B", "C"}
  /\ WarnedAt(2) # {} /\ MergedAt(2) # {}
  /\ rec.rounds[3].fetched # {}
  /\ rec.rounds[3].fetched \subseteq RecContribution(2)

\* expandSelectedNodeRecursively(2) for the selected node A has completed,
\* from an empty extraGraph, no fetch rejected, the answer for A naming B (and
\* possibly A itself) and the answer for B naming C (and possibly B itself)
ScenarioAB2Done ==
  /\ rec.pc = "done" /\ rec.maxDepth = 2
  /\ rec.env.selectedNodeId = "A" /\ rec.env.extraGraph = EmptyGraph
  /\ rec.failing = {}
  /\ rec.world["A"] \in {{"B"}, {"A", "B"}}
  /\ rec.world["B"] \in {{"C"}, {"B", "C"}}

\* C14 (as stated): after the scenario extraGraph holds the nodes {A, B, C}
\* and the frontier left after the second level is empty.
C14_ScenarioAsStated ==
  ScenarioAB2Done =>
    /\ IdsOf(extraGraph.nodes) = {"A", "B", "C"}
    /\ rec.frontier = {}

\* C14 (amended): after the scenario two rounds were issued, the first for A
\* and the second for the ids A's answer named; extraGraph holds exactly the
\* nodes the two answers named (B and C, and A only if A's answer names A),
\* and the frontier left after the second level is {C}: C was found at level
\* two and is not fetched because the depth is used up.
C14_Scenario ==
  ScenarioAB2Done =>
    /\ Len(rec.rounds) = 2
    /\ rec.rounds[1].fetched = {"A"}
    /\ rec.rounds[2].fetched = rec.world["A"]
    /\ IdsOf(extraGraph.nodes) = rec.world["A"] \cup rec.world["B"]
    /\ {"B", "C"} \subseteq IdsOf(extraGraph.nodes)
    /\ ("A" \in IdsOf(extraGraph.nodes) <=> "A" \in rec.world["A"])
    /\ rec.frontier = {"C"}

C14_Witness ==
  /\ ScenarioAB2Done
  /\ rec.world["A"] = {"B"} /\ rec.world["B"] = {"C"}
  /\ IdsOf(extraGraph.nodes) = {"B", "C"}
  /\ rec.frontier = {"C"}

\* no updateGraph call and no expansion fetch is outstanding
Quiescent == InFlight(passes) = 0 /\ InFlight(exps) = 0

\* what the pass that published last would have published without any
\* expansion data
PublishedWithoutExpansions ==
  Publish([published.env EXCEPT !.extraGraph = EmptyGraph],
          published.base, published.origin).out

\* C15: when Reset Expansions was the last user operation and everything it
\* started has settled, extraGraph is empty and the connection records,
\* orphan flags and highlight sets last published are those of a pass that
\* saw no expansion data.
C15_ResetRecomputes ==
  lastOp = "reset" /\ Quiescent =>
    /\ extraGraph = EmptyGraph
    /\ published.kind = "graph" =>
         /\ published.out.conn = PublishedWithoutExpansions.conn
         /\ published.out.orphanNodes = PublishedWithoutExpansions.orphanNodes
         /\ published.out.highlightedNodes = PublishedWithoutExpansions.highlightedNodes
         /\ published.out.highlightedEdges = PublishedWithoutExpansions.highlightedEdges

PublishedGraph(pub) ==
  [nodes |-> GraphNodes(pub),
   edges |-> IF pub.kind = "graph" THEN OutputOf(pub).styledEdges ELSE <<>>,
   conn |-> IF pub.kind = "graph" THEN OutputOf(pub).conn ELSE <<>>,
   highlighted |-> HighlightedElements(pub)]

\* C17: every failure path degrades to "graph unchanged".  A step that logs a
\* failed graph fetch or a failed expansion fetch (the diagnostic record)
\* leaves extraGraph and the published collection, records and highlight sets
\* as they were before the failed operation.
C17_FailureLeavesGraphUnchanged ==
  [][(diagnostics' # diagnostics /\ diagnostics' \subseteq diagnostics \cup {"graph", "expand"}) =>
       /\ extraGraph' = extraGraph
       /\ PublishedGraph(published') = PublishedGraph(published)]_vars

(***************************************************************************)
(* SpecClassify: classifyRelationship applied to the types of an edge list *)
(***************************************************************************)
\* edge.data.type of an edge that has none
NoType == "undefined"

\* the types an edge may carry: every type of the three lists, no type, the
\* empty string and types of no list
RelLabels ==
  directTypes \cup indirectTypes \cup metadataTypes \cup
    {NoType, "", "depends_on", "WRITES_TO"}

ClassInit ==
  /\ relTypes \in SeqsUpTo(RelLabels, MaxLen)
  /\ relLevels = <<>> /\ classPc = "idle"
  /\ MergeIdle /\ PassIdle /\ SessionIdle /\ RecOff

\* edges.forEach(edge => ... classifyRelationship(edge.data.type) ...)
ClassifyEdges ==
  /\ classPc = "idle"
  /\ relLevels' = [i \in 1..Len(relTypes) |-> classifyRelationship(relTypes[i])]
  /\ classPc' = "done"
  /\ UNCHANGED <<relTypes, mergeVars, passVars, sessionVars, recVars>>

ClassNext == ClassifyEdges

SpecClassify == ClassInit /\ [][ClassNext]_vars

\* the level the table of the claim gives a type
TableLevel(type, direct) ==
  IF type \in direct THEN "direct"
  ELSE IF type \in {"contains_query", "executes_query", "triggers_automation",
                    "executes_activity", "next_step"} THEN "indirect"
  ELSE IF type \in {"filters_de", "uses_in_decision", "provides_data_to"} THEN "metadata"
  ELSE "unknown"

\* C18 (as stated): every type gets a level, and it is direct exactly for
\* writes_to, reads_from, imports_to_de, updates_de and journey_entry_source,
\* indirect and metadata exactly for their five and three types, and unknown
\* for every other type, the missing and the empty one included.
C18_ClassifierTableAsStated ==
  classPc = "done" =>
    /\ Len(relLevels) = Len(relTypes)
    /\ \A i \in 1..Len(relTypes) :
         relLevels[i] =
           TableLevel(relTypes[i], {"writes_to", "reads_from", "imports_to_de",
                                    "updates_de", "journey_entry_source"})

\* C18 (amended): as stated, with filters_to and filters_from direct as well.
C18_ClassifierTable ==
  classPc = "done" =>
    /\ Len(relLevels) = Len(relTypes)
    /\ \A i \in 1..Len(relTypes) :
         relLevels[i] =
           TableLevel(relTypes[i], {"writes_to", "reads_from", "imports_to_de",
                                    "updates_de", "journey_entry_source",
                                    "filters_to", "filters_from"})

C18_Witness ==
  /\ classPc = "done"
  /\ relTypes = <<"filters_to", NoType>>
  /\ relLevels = <<"direct", "unknown">>

\* C19: fan-out/fan-in barrier.  Every outstanding fetch belongs to the round
\* issued last; a step that issues a further round finds no fetch outstanding
\* and every node of the round before it resolved or rejected, and the
\* frontier it issues is the set of unvisited ids named by all the resolved
\* fetches of that round.
C19_Barrier ==
  /\ [](rec.pc \notin {"off", "idle"} =>
         \A f \in rec.pending : f.level = Len(rec.rounds))
  /\ [][(rec.pc # "off" /\ Len(rec'.rounds) > Len(rec.rounds)) =>
          LET k == Len(rec.rounds)
          IN /\ rec.pending = {}
             /\ Len(rec'.rounds) = k + 1
             /\ k > 0 =>
                  /\ {f.node : f \in MergedAt(k) \cup WarnedAt(k)} = rec.rounds[k].fetched
                  /\ rec'.rounds[k + 1].fetched = RecContribution(k)
                  /\ \A f \in MergedAt(k) :
                       IdsOf(RecResponse(rec.world, f.node).nodes) \ rec.rounds[k].visited
                         \subseteq rec'.rounds[k + 1].fetched]_vars

\* both fetches of the second round resolved and the third round was issued
\* for a node that only one of the two answers named
C19_Witness ==
  /\ rec.pc = "done" /\ Len(rec.rounds) = 3
  /\ rec.rounds[2].fetched = {"B", "C"}
  /\ {f.node : f \in MergedAt(2)} = {"B", "C"}
  /\ "A" \in rec.world["C"] /\ "A" \notin rec.world["B"]
  /\ rec.rounds[3].fetched = {"A"}

\* the frontiers a breadth-first traversal fetches level by level, computed
\* from the answers alone: no arrival order enters
RECURSIVE RefRounds(_, _, _, _, _, _)
RefRounds(w, failing, frontier, visited, depth, maxDepth) ==
  IF frontier = {} \/ depth >= maxDepth THEN <<>>
  ELSE LET new == UNION {IdsOf(RecResponse(w, n).nodes) : n \in frontier \ failing}
                    \ visited
       IN <<frontier>> \o RefRounds(w, failing, new, visited \cup new, depth + 1, maxDepth)

RefFetched ==
  RefRounds(rec.world, rec.failing, {rec.env.selectedNodeId},
            IdsOf(rec.env.extraGraph.nodes), 0, rec.maxDepth)

\* the nodes whose fetch resolves in that traversal
RefResolved == UNION {RefFetched[k] \ rec.failing : k \in 1..Len(RefFetched)}

\* the node whose answer arrived first among the answers naming id
FirstArrival(id) ==
  rec.arrived[CHOOSE i \in 1..Len(rec.arrived) :
                /\ id \in IdsOf(RecResponse(rec.world, rec.arrived[i].node).nodes)
                /\ \A j \in 1..(i - 1) :
                     id \notin IdsOf(RecResponse(rec.world, rec.arrived[j].node).nodes)].node

\* C20: arrival-order invariance.  When the loop of a call is over, the sets
\* fetched level by level and the node ids and edge ids of extraGraph are
\* those the start node, the depth, the prior extraGraph and the answers
\* determine, whatever the order in which the answers of a level arrived;
\* a node already in extraGraph keeps its data, and a new node carries the
\* data of the answer naming it that arrived first.
C20_ArrivalOrderInvariance ==
  rec.pc \in {"rebuild", "done"} =>
    /\ [k \in 1..Len(rec.rounds) |-> rec.rounds[k].fetched] = RefFetched
    /\ IdsOf(extraGraph.nodes) =
         IdsOf(rec.env.extraGraph.nodes) \cup
         UNION {IdsOf(RecResponse(rec.world, n).nodes) : n \in RefResolved}
    /\ IdsOf(extraGraph.edges) =
         IdsOf(rec.env.extraGraph.edges) \cup
         UNION {IdsOf(RecResponse(rec.world, n).edges) : n \in RefResolved}
    /\ \A i \in 1..Len(extraGraph.nodes) :
         LET e == extraGraph.nodes[i]
         IN IF e.id \in IdsOf(rec.env.extraGraph.nodes)
            THEN e = FirstIn(rec.env.extraGraph.nodes, e.id)
            ELSE e.d = "x" \o FirstArrival(e.id)

\* the two answers of the second round both name A; the one for C arrived
\* before the one for B and A carries C's data
C20_Witness ==
  /\ rec.pc = "done"
  /\ rec.env.extraGraph = EmptyGraph
  /\ Len(rec.rounds) = 2
  /\ rec.rounds[2].fetched = {"B", "C"}
  /\ "A" \notin rec.world["A"] /\ "A" \in rec.world["B"] /\ "A" \in rec.world["C"]
  /\ Len(rec.arrived) = 3
  /\ rec.arrived[2].node = "C" /\ rec.arrived[3].node = "B"
  /\ FirstIn(extraGraph.nodes, "A").d = "xC"

(***************************************************************************)
(* SpecRecReset: one recursive expansion during which Reset Expansions may *)
(* be pressed (the button is shown whenever extraGraph is not empty and is *)
(* not disabled while an expansion runs)                                   *)
(***************************************************************************)
\* the depth the Expand All button asks for
ExpandAllDepth == 3

\* endpoints the button is pressed against: a chain whose answers name the
\* node asked, a cycle, and a star whose leaves name the centre
ButtonWorlds ==
  {[n \in RecIds |-> CASE n = "A" -> {"A", "B"} [] n = "B" -> {"B", "C"} [] OTHER -> {"C"}],
   [n \in RecIds |-> CASE n = "A" -> {"B"} [] n = "B" -> {"C"} [] OTHER -> {"A"}],
   [n \in RecIds |-> CASE n = "A" -> {"B", "C"} [] OTHER -> {"A"}]}

\* drawer button "Expand All (Depth 3)": disabled={!selectedNodeId || isExpanding},
\* onClick={() => expandSelectedNodeRecursively(3)}
ExpandAllButton ==
  /\ ~isExpanding
  /\ \E w \in ButtonWorlds, failing \in FailingSets :
       RecStartWith(w, failing, ExpandAllDepth)

\* Reset Expansions pressed after Expand All was
ResetDuringExpansion == rec.pc # "idle" /\ ResetExpansions

RecResetNext ==
  \/ ExpandAllButton
  \/ \E f \in rec.pending : RecFetchOk(f)
  \/ \E f \in rec.pending : RecFetchFail(f)
  \/ RecLevelDone
  \/ RecRebuildOk
  \/ RecRebuildFail
  \/ ResetDuringExpansion
  \/ \E p \in BagToSet(passes) : PassOk(p)
  \/ \E p \in BagToSet(passes) : PassFail(p)

SpecRecReset == RecInit /\ [][RecResetNext]_vars

\* C21: stale expansion responses are ignored.  Once Reset Expansions has run
\* and no user operation followed it, no step makes the empty extraGraph
\* non-empty again.
C21_StaleResponsesIgnored ==
  [][(lastOp = "reset" /\ lastOp' = "reset" /\ extraGraph = EmptyGraph) =>
       extraGraph' = EmptyGraph]_vars

\* C22: post-merge snapshot.  A graph published by the pass that an expansion
\* or a reset runs as its last step was built from the extraGraph that the
\* operation left: empty after a reset, and holding the nodes and edges of an
\* answer for the expanded node after an expansion.
C22_PostMergeSnapshot ==
  published.kind = "graph" =>
    /\ published.origin = "reset" => published.env.extraGraph = EmptyGraph
    /\ published.origin = "expand" =>
         \E data \in ExpandAnswers(published.env.selectedNodeId) :
           /\ IdsOf(data.nodes) \subseteq IdsOf(published.env.extraGraph.nodes)
           /\ IdsOf(data.edges) \subseteq IdsOf(published.env.extraGraph.edges)

RECURSIVE SumTotalConnections(_, _)
SumTotalConnections(keys, i) ==
  IF i > Len(keys) THEN 0
  ELSE passOut.conn[keys[i]].totalConnections + SumTotalConnections(keys, i + 1)

\* C23: index bookkeeping.  After a pass of the first variant every record
\* holds one outbound entry per valid edge leaving its node and one inbound
\* entry per valid edge entering it, in the order of the edge list and each
\* with the edge's classified level; totalConnections is the number of its
\* entries (a self-loop counts twice); each has...Connections flag is true iff
\* the node is an endpoint of a valid edge of that level; and the totals add
\* up to twice the number of valid edges.
C23_IndexBookkeeping ==
  passPc = "done1" =>
    LET es == passOut.merged.edges
        ids == IdsOf(passOut.merged.nodes)
        \* the positions of the valid edges, in order
        valid == SelectSeq([i \in 1..Len(es) |-> i],
                           LAMBDA i : es[i].source \in ids /\ es[i].target \in ids)
        level == [i \in 1..Len(es) |-> classifyRelationship(es[i].type)]
    IN /\ \A v \in DOMAIN passOut.conn :
            LET r == passOut.conn[v]
                from == SelectSeq(valid, LAMBDA i : es[i].source = v)
                into == SelectSeq(valid, LAMBDA i : es[i].target = v)
                tiers == {level[from[k]] : k \in 1..Len(from)} \cup
                         {level[into[k]] : k \in 1..Len(into)}
            IN /\ r.outbound =
                    [k \in 1..Len(from) |->
                       [edgeId |-> es[from[k]].id, targetId |-> es[from[k]].target,
                        type |-> es[from[k]].type, level |-> level[from[k]]]]
               /\ r.inbound =
                    [k \in 1..Len(into) |->
                       [edgeId |-> es[into[k]].id, sourceId |-> es[into[k]].source,
                        type |-> es[into[k]].type, level |-> level[into[k]]]]
               /\ r.totalConnections = Len(r.inbound) + Len(r.outbound)
               /\ r.hasDirectConnections <=> "direct" \in tiers
               /\ r.hasIndirectConnections <=> "indirect" \in tiers
               /\ r.hasMetadataConnections <=> "metadata" \in tiers
       /\ SumTotalConnections(passOut.keys, 1) = 2 * Len(valid)
       /\ Len(passOut.validEdges) = Len(valid)

\* a pass over a self-loop and an edge between two nodes
C23_Witness ==
  /\ passPc = "done1"
  /\ Cardinality(ValidPositions) = 2
  /\ \E v \in DOMAIN passOut.conn :
       /\ ValidFrom(v) \cap ValidInto(v) # {}
       /\ passOut.conn[v].totalConnections = 3

(***************************************************************************)
(* SpecPanel: the drawer and card-board actions on a selected node, from   *)
(* a graph on screen: Expand Dependencies and Expand All                   *)
(***************************************************************************)
\* how many single-level expansions the panel runs are allowed to start
MaxPanelOps == 1

\* the Expand Dependencies button, within the bound of the panel runs
PanelExpandButton == ops < MaxPanelOps /\ ExpandButton

\* the card board's expand callback, within the bound of the panel runs
PanelCardExpand == ops < MaxPanelOps /\ CardExpand

\* the answers of the panel runs: A leads to B, B to C and C back to A
PanelWorld == [n \in RecIds |-> CASE n = "A" -> {"B"} [] n = "B" -> {"C"} [] OTHER -> {"A"}]

\* the Expand All button in the panel runs
PanelExpandAll ==
  /\ ~isExpanding
  /\ \E failing \in FailingSets : RecStartWith(PanelWorld, failing, ExpandAllDepth)

PanelNext ==
  \/ PanelExpandButton
  \/ PanelCardExpand
  \/ PanelExpandAll
  \/ \E e \in BagToSet(exps) : ExpandOneOk(e)
  \/ \E e \in BagToSet(exps) : ExpandOneFail(e)
  \/ \E f \in rec.pending : RecFetchOk(f)
  \/ \E f \in rec.pending : RecFetchFail(f)
  \/ RecLevelDone
  \/ RecRebuildOk
  \/ RecRebuildFail
  \/ \E p \in BagToSet(passes) : PassOk(p)
  \/ \E p \in BagToSet(passes) : PassFail(p)

SpecPanel == RecInit /\ [][PanelNext]_vars

\* the expandSelectedNode calls that are between their setIsExpanding(true)
\* and their finally: awaiting the fetch, or awaiting their updateGraph
FinallyPasses ==
  LET S == {p \in BagToSet(passes) : p.finally}
  IN BagCardinality([p \in S |-> CopiesIn(p, passes)])

ExpandOneRunning == InFlight(exps) + FinallyPasses

\* the expandSelectedNodeRecursively call is between its setIsExpanding(true)
\* and its finally
ExpandAllRunning == rec.pc \in {"level", "rebuild"}

\* the steps the expansions still have to take once their fetches settle
ExpansionStepsLeft == 2 * InFlight(exps) + FinallyPasses + RecStepsLeft(rec)

\* C24: every call of expandSelectedNode or expandSelectedNodeRecursively
\* with a node selected has set isExpanding when its first fetch is out;
\* while a call runs one of its steps can be taken, and every step of a call
\* brings the calls nearer to their end, whether a fetch resolves, a fetch
\* fails or the rebuild fails; once no call runs isExpanding is false
C24_ExpandingFlag ==
  /\ [][(InFlight(exps') > InFlight(exps) \/ (rec.pc = "idle" /\ rec'.pc # "idle"))
          => isExpanding']_vars
  /\ [](ExpandOneRunning = 0 /\ ~ExpandAllRunning => ~isExpanding)
  /\ [](ExpandAllRunning => RecCanStep)
  /\ [][\/ InFlight(exps') > InFlight(exps)
        \/ (exps' = exps /\ FinallyPasses' = FinallyPasses /\ rec' = rec)
        \/ ExpansionStepsLeft' < ExpansionStepsLeft]_vars

\* both kinds of call are over, one of them after a failed fetch and one
\* after a failed rebuild
C24_Witness ==
  /\ rec.pc = "done" /\ ops = 1
  /\ ExpandOneRunning = 0
  /\ diagnostics = {"expand", "graph"}
  /\ ~isExpanding

\* C25: latest selection wins.  Once every graph fetch has resolved (none of
\* them failed), what is on screen was built for the selection and show-all
\* mode of the current state: the graph that fetchGraphData gives for them,
\* or no graph when the effect clears it; a pass started for an earlier
\* selection has not overwritten it
C25_LatestSelectionWins ==
  (Quiescent /\ "graph" \notin diagnostics /\ published.kind # "initial") =>
    IF EffectRuns(CurrentEnv)
    THEN /\ published.kind = "graph"
         /\ published.base = fetchGraphData(CurrentEnv)
         /\ hasActiveSelections(published.env.selectedObjects)
              = hasActiveSelections(selectedObjects)
    ELSE published.kind = "cleared"

\* C26: single expansion in flight.  Whatever the drawer buttons and the card
\* board are used for, at most one call of expandSelectedNode or
\* expandSelectedNodeRecursively is between its start and its finally, and
\* isExpanding is true while a fetch of an expansion is outstanding
C26_SingleExpansion ==
  /\ ExpandOneRunning + (IF ExpandAllRunning THEN 1 ELSE 0) <= 1
  /\ (InFlight(exps) > 0 \/ rec.pending # {}) => isExpanding

\* C27: no repeated fetch.  Within one call of expandSelectedNodeRecursively
\* no node id is fetched in two rounds (the start node included, when an
\* answer names it), so the call issues at most one fetch per node id
C27_NoRepeatedFetch ==
  rec.pc # "off" =>
    \A j, k \in 1..Len(rec.rounds) :
      j # k => rec.rounds[j].fetched \cap rec.rounds[k].fetched = {}

\* the node ids that the answers name within d hops of the nodes S
RECURSIVE WithinHops(_, _, _)
WithinHops(w, S, d) ==
  IF d = 0 THEN {}
  ELSE LET named == UNION {w[m] : m \in S}
       IN named \cup WithinHops(w, named, d - 1)

\* C28: depth completeness.  When no fetch is rejected, after the loop of
\* expandSelectedNodeRecursively(d) extraGraph holds every node that the
\* answers name within d hops of the start node, whatever extraGraph held
\* before the call
C28_DepthCompleteness ==
  (rec.pc \in {"rebuild", "done"} /\ rec.failing = {}) =>
    WithinHops(rec.world, {rec.env.selectedNodeId}, rec.maxDepth)
      \subseteq IdsOf(extraGraph.nodes)

(***************************************************************************)
(* SpecExplore: the panel runs together with one other thing the user does *)
(* first or meanwhile: change the object selection, toggle show-all, tap a *)
(* node, reset the expansions                                              *)
(***************************************************************************)
\* (the other thing is done while lastOp = "none": before any selection
\* change, tap, single-level expansion or reset)
ExploreNext ==
  \/ PanelNext
  \/ \E o \in Objects : lastOp = "none" /\ HandleObjectSelect(o)
  \/ lastOp = "none" /\ ToggleShowAll
  \/ \E id \in SessionIds : lastOp = "none" /\ HandleNodeClick(id)
  \/ lastOp = "none" /\ ResetExpansions

SpecExplore == RecInit /\ [][ExploreNext]_vars

\* an entry stays in a collection with the data it has
KeepsEntries(before, after) ==
  \A i \in 1..Len(before) :
    before[i].id \in IdsOf(after) /\ FirstIn(after, before[i].id) = before[i]

\* C29: extraGraph only grows between resets and nothing else touches it.
\* Reset Expansions empties it; in every other step each node and edge of
\* extraGraph stays with the data stored for it; and a step that changes the
\* object selection, toggles show-all, selects a node, starts an expansion,
\* settles a graph rebuild or logs a failed fetch leaves extraGraph as it is
C29_ExtraGraphOnlyGrows ==
  [][IF ops' = ops + 1 /\ lastOp' = "reset"
     THEN extraGraph' = EmptyGraph
     ELSE /\ KeepsEntries(extraGraph.nodes, extraGraph'.nodes)
          /\ KeepsEntries(extraGraph.edges, extraGraph'.edges)
          /\ (\/ ops' # ops
              \/ InFlight(passes') < InFlight(passes)
              \/ diagnostics' # diagnostics
              \/ rec.pc = "idle" /\ rec'.pc # "idle"
              \/ rec.pc = "level" /\ rec'.pc = "level" /\ rec'.warned # rec.warned
              \/ rec.pc = "rebuild" /\ rec'.pc = "done") => extraGraph' = extraGraph]_vars

\* the node kept from before the call stands beside what a recursive
\* expansion added, and a node was tapped since
C29_Witness ==
  /\ Len(extraGraph.nodes) >= 2
  /\ "B" \in IdsOf(extraGraph.nodes) /\ FirstIn(extraGraph.nodes, "B").d = "old"
  /\ rec.pc = "done"
  /\ lastOp = "node"

\* C30: highlights stay inside the graph.  In what a pass publishes, every
\* highlighted node id is the id of a published node and every highlighted
\* edge id the id of a published valid edge; when the selected node is not
\* among the published nodes, no node is highlighted and none is faded
C30_HighlightsInsideGraph ==
  published.kind = "graph" =>
    LET out == OutputOf(published)
        shown == {out.styledNodes[i].id : i \in 1..Len(out.styledNodes)}
        edges == {out.styledEdges[i].edge.id : i \in 1..Len(out.styledEdges)}
    IN /\ out.highlightedNodes \subseteq shown
       /\ out.highlightedEdges \subseteq edges
       /\ published.env.selectedNodeId \notin shown =>
            /\ out.highlightedNodes = {}
            /\ \A i \in 1..Len(out.styledNodes) : ~out.styledNodes[i].isFaded

====
